---- MODULE Spec2Model ----
(***************************************************************************)
(* Model of the KP Scoreboard controller (src/src/pages/Index.tsx): the    *)
(* React state of the Index component and its event handlers.              *)
(*                                                                         *)
(* Every handler runs to completion inside one browser event, and React    *)
(* re-renders before the next event is delivered, so the `gameState` and   *)
(* `actionHistory` a handler closes over are the current ones and one      *)
(* handler is one atomic step.  State updaters are run once per update     *)
(* (the production behaviour of React 18).                                 *)
(*                                                                         *)
(* JavaScript indices are 0-based, TLA+ sequences are 1-based: the model   *)
(* keeps the program's 0-based playerIndex and currentRound and adds 1     *)
(* where it indexes a sequence.  A string is a sequence of characters.     *)
(*                                                                         *)
(* gameState and actionHistory hold the contents of the JavaScript values. *)
(* Which player objects and roundScores arrays these values share is kept  *)
(* in heap, and followed in HeapSpec, where the handlers' writes into      *)
(* existing objects reach every value that holds the written object.       *)
(*                                                                         *)
(* showWinnerAnimation is a state cell of the second variant of the page   *)
(* (src/unnamed/part_000) only, and timeouts counts the setTimeout         *)
(* callbacks of its endGame that have not run yet.  Index.tsx has neither: *)
(* they stay FALSE and 0 in its specifications.                            *)
(***************************************************************************)
EXTENDS Integers, Sequences, FiniteSets, TLC

VARIABLES gameState, actionHistory, showSetup, numPlayers, playerNames, lastCall,
          heap, showWinnerAnimation, timeouts

vars == <<gameState, actionHistory, showSetup, numPlayers, playerNames, lastCall,
          heap, showWinnerAnimation, timeouts>>

(***************************************************************************)
(* Bounds of the model.                                                    *)
(***************************************************************************)
\* Longest action history explored (bounds scores and rounds as well).
MaxHist == 3
\* Players and longest run of addPoint calls when the ranking is explored.
RankPlayers == 3
RankLen == 5
\* Largest value typed into the "Number of Players" field when only the
\* setup screen is explored.
SetupMaxPlayers == 3
\* Largest value typed into the "Number of Players" field.
MaxPlayers == 2

\* Players and longest history when object identities are followed.
HeapPlayers == 2
HeapLen == 3

\* Players, longest history and most pending timeouts when the ledger of the
\* second variant is explored.
VariantPlayers == 2
VariantLen == 3
VariantTimeouts == 2

\* The largest count typed into the count input when it is explored alone.
CountMax == 9

\* The min and max attributes of the count input.
inputMin == 2
inputMax == 8

\* The name fields edited by hand when the stepper variant is explored.
StepperEditFields == 2

\* The limits of the stepper of the second variant of the page.
stepperMin == 2
stepperMax == 20

\* The texts typed into a name field: empty, blank, plain, and padded.
NamePool == { <<>>, <<" ">>, <<"A">>, <<" ", "B">> }

\* The values typed into the "Number of Players" field (0 stands for any
\* text that parseInt turns into 0 or NaN).
TypedCounts == 0..MaxPlayers

(***************************************************************************)
(* Helpers for sequences.                                                  *)
(***************************************************************************)
RECURSIVE SumSeq(_)
SumSeq(s) == IF s = <<>> THEN 0 ELSE Head(s) + SumSeq(Tail(s))

Front(s) == SubSeq(s, 1, Len(s) - 1)

Last(s) == s[Len(s)]

\* Array(n).fill(v)
Fill(n, v) == [k \in 1..n |-> v]

(***************************************************************************)
(* String.prototype.trim on sequences of characters.                       *)
(***************************************************************************)
IsSpace(c) == c = " "

RECURSIVE TrimStart(_)
TrimStart(s) ==
    IF s = <<>> THEN <<>>
    ELSE IF IsSpace(Head(s)) THEN TrimStart(Tail(s)) ELSE s

RECURSIVE TrimEnd(_)
TrimEnd(s) ==
    IF s = <<>> THEN <<>>
    ELSE IF IsSpace(Last(s)) THEN TrimEnd(Front(s)) ELSE s

trim(s) == TrimEnd(TrimStart(s))

(***************************************************************************)
(* Values of the program.                                                  *)
(***************************************************************************)
\* useState<GameState>({ players: [], currentRound: 0, gameEnded: false })
EmptyGameState == [players |-> <<>>, currentRound |-> 0, gameEnded |-> FALSE]

\* JSON.parse(JSON.stringify(gameState)): a fresh object graph rebuilt from
\* the serialised fields.  Every field of a GameState is a string, a finite
\* integer, a boolean or a dense array, all of which JSON carries.
JSONClonePlayer(p) ==
    [name        |-> [k \in 1..Len(p.name) |-> p.name[k]],
     totalScore  |-> p.totalScore,
     roundScores |-> [r \in 1..Len(p.roundScores) |-> p.roundScores[r]]]

JSONClone(gs) ==
    [players      |-> [k \in 1..Len(gs.players) |-> JSONClonePlayer(gs.players[k])],
     currentRound |-> gs.currentRound,
     gameEnded    |-> gs.gameEnded]

\* The state a whole world of the component is made of.
MkWorld(gs, hist, setup, n, names) ==
    [gameState     |-> gs,
     actionHistory |-> hist,
     showSetup     |-> setup,
     numPlayers    |-> n,
     playerNames   |-> names]

World == MkWorld(gameState, actionHistory, showSetup, numPlayers, playerNames)

(***************************************************************************)
(* Setup screen.                                                           *)
(***************************************************************************)
\* parseInt(e.target.value) || 2
parseCount(v) == IF v = 0 THEN 2 ELSE v

\* onChange of the "Number of Players" input
changeNumPlayers(w, v) ==
    LET num == parseCount(v) IN
    [w EXCEPT !.numPlayers = num, !.playerNames = Fill(num, <<>>)]

\* onChange of the i-th name input
changePlayerName(w, i, text) ==
    [w EXCEPT !.playerNames = [@ EXCEPT ![i + 1] = text]]

\* The filter predicate without the trim: only the empty text is dropped.
MutIsValidNameNoTrim(name) == name # <<>>

IsValidName(name) == trim(name) # <<>>

\* playerNames.filter(name => name.trim() !== '')
RECURSIVE validNamesOf(_)
validNamesOf(names) ==
    IF names = <<>> THEN <<>>
    ELSE IF IsValidName(Head(names)) THEN <<Head(names)>> \o validNamesOf(Tail(names))
         ELSE validNamesOf(Tail(names))

\* newPlayer keeping the text as typed.
MutNewPlayerNoTrim(name) == [name |-> name, totalScore |-> 0, roundScores |-> <<0>>]

newPlayer(name) == [name |-> trim(name), totalScore |-> 0, roundScores |-> <<0>>]

startState(names) ==
    LET validNames == validNamesOf(names) IN
    [players      |-> [k \in 1..Len(validNames) |-> newPlayer(validNames[k])],
     currentRound |-> 0,
     gameEnded    |-> FALSE]

handleSetupComplete(w) ==
    IF Len(validNamesOf(w.playerNames)) < 2 THEN w
    ELSE [w EXCEPT !.gameState = startState(w.playerNames),
                   !.actionHistory = <<>>,
                   !.showSetup = FALSE]

(***************************************************************************)
(* Ledger operations.                                                      *)
(***************************************************************************)
\* saveAction putting the record in front: [action, ...prev].
MutSaveActionPrepends(hist, action) == <<action>> \o hist

\* setActionHistory(prev => [...prev, action])
saveAction(hist, action) == Append(hist, action)

\* addPointUpdater without the line that raises totalScore.
MutAddPointUpdaterNoTotal(prev, playerIndex) ==
    [prev EXCEPT !.players[playerIndex + 1].roundScores[prev.currentRound + 1] = @ + 10]

\* addPointUpdater indexing roundScores with 0 instead of prev.currentRound.
MutAddPointUpdaterFirstRound(prev, playerIndex) ==
    [prev EXCEPT !.players[playerIndex + 1].roundScores[1] = @ + 10,
                 !.players[playerIndex + 1].totalScore = @ + 10]

\* addPointUpdater counting 1 per click instead of 10.
MutAddPointUpdaterPlusOne(prev, playerIndex) ==
    [prev EXCEPT !.players[playerIndex + 1].roundScores[prev.currentRound + 1] = @ + 1,
                 !.players[playerIndex + 1].totalScore = @ + 1]

\* The updater of addPoint: the entry of the current round and the total of
\* the chosen player both grow by 10.
addPointUpdater(prev, playerIndex) ==
    [prev EXCEPT !.players[playerIndex + 1].roundScores[prev.currentRound + 1] = @ + 10,
                 !.players[playerIndex + 1].totalScore = @ + 10]

\* addPoint keeping a reference to the state object it then updates in place
\* instead of a JSON copy: the record's snapshot shows the updated player.
MutAddPointAliasedSnapshot(w, playerIndex) ==
    IF w.gameState.gameEnded THEN w
    ELSE LET previousState ==
                 [w.gameState EXCEPT
                     !.players = addPointUpdater(w.gameState, playerIndex).players] IN
         [w EXCEPT !.gameState = addPointUpdater(w.gameState, playerIndex),
                   !.actionHistory =
                       Append(@, [type          |-> "addPoint",
                                  playerIndex   |-> playerIndex,
                                  roundIndex    |-> w.gameState.currentRound,
                                  previousState |-> previousState])]

\* addPoint without its gameEnded guard.
MutAddPointNoEndedGuard(w, playerIndex) ==
    LET previousState == JSONClone(w.gameState) IN
    [w EXCEPT !.gameState = addPointUpdater(w.gameState, playerIndex),
              !.actionHistory =
                  Append(@, [type          |-> "addPoint",
                             playerIndex   |-> playerIndex,
                             roundIndex    |-> w.gameState.currentRound,
                             previousState |-> previousState])]

addPoint(w, playerIndex) ==
    IF w.gameState.gameEnded THEN w
    ELSE LET previousState == JSONClone(w.gameState) IN
         [w EXCEPT !.gameState = addPointUpdater(w.gameState, playerIndex),
                   !.actionHistory =
                       saveAction(@, [type          |-> "addPoint",
                                      playerIndex   |-> playerIndex,
                                      roundIndex    |-> w.gameState.currentRound,
                                      previousState |-> previousState])]

\* endRoundUpdater without the increment of currentRound.
MutEndRoundUpdaterNoRoundInc(prev) ==
    [prev EXCEPT !.players = [k \in 1..Len(prev.players) |->
                                 [prev.players[k] EXCEPT
                                     !.roundScores = Append(@, 0)]]]

\* endRoundUpdater opening the new round for the first player only.
MutEndRoundUpdaterFirstOnly(prev) ==
    [prev EXCEPT !.currentRound = prev.currentRound + 1,
                 !.players = [k \in 1..Len(prev.players) |->
                                 IF k = 1
                                 THEN [prev.players[k] EXCEPT !.roundScores = Append(@, 0)]
                                 ELSE prev.players[k]]]

\* endRoundUpdater building the new players array in reverse order.
MutEndRoundUpdaterReversed(prev) ==
    [prev EXCEPT !.currentRound = prev.currentRound + 1,
                 !.players = [k \in 1..Len(prev.players) |->
                                 [prev.players[Len(prev.players) + 1 - k] EXCEPT
                                     !.roundScores = Append(@, 0)]]]

\* The updater of endRound.
endRoundUpdater(prev) ==
    [prev EXCEPT !.currentRound = prev.currentRound + 1,
                 !.players = [k \in 1..Len(prev.players) |->
                                 [prev.players[k] EXCEPT
                                     !.roundScores = Append(@, 0)]]]

endRound(w) ==
    IF w.gameState.gameEnded THEN w
    ELSE LET previousState == JSONClone(w.gameState) IN
         [w EXCEPT !.gameState = endRoundUpdater(w.gameState),
                   !.actionHistory =
                       saveAction(@, [type          |-> "endRound",
                                      previousState |-> previousState])]

\* resetPlayer setting the total to 0 instead of subtracting the entry.
MutResetPlayerZeroTotal(player, currentRound) ==
    [player EXCEPT !.totalScore = 0,
                   !.roundScores[currentRound + 1] = 0]

\* resetPlayer subtracting the entry from the total but leaving the entry.
MutResetPlayerKeepEntry(player, currentRound) ==
    LET currentRoundScore == player.roundScores[currentRound + 1] IN
    [player EXCEPT !.totalScore = @ - currentRoundScore]

\* The updater of resetCurrentRound.
resetPlayer(player, currentRound) ==
    LET currentRoundScore == player.roundScores[currentRound + 1] IN
    [player EXCEPT !.totalScore = @ - currentRoundScore,
                   !.roundScores[currentRound + 1] = 0]

resetCurrentRoundUpdater(prev) ==
    [prev EXCEPT !.players = [k \in 1..Len(prev.players) |->
                                 resetPlayer(prev.players[k], prev.currentRound)]]

\* resetCurrentRound without its gameEnded guard.
MutResetNoEndedGuard(w) ==
    LET previousState == JSONClone(w.gameState) IN
    [w EXCEPT !.gameState = resetCurrentRoundUpdater(w.gameState),
              !.actionHistory =
                  Append(@, [type          |-> "resetRound",
                             previousState |-> previousState])]

resetCurrentRound(w) ==
    IF w.gameState.gameEnded THEN w
    ELSE LET previousState == JSONClone(w.gameState) IN
         [w EXCEPT !.gameState = resetCurrentRoundUpdater(w.gameState),
                   !.actionHistory =
                       saveAction(@, [type          |-> "resetRound",
                                      previousState |-> previousState])]

\* undoLastAction emptying the history instead of dropping one record.
MutUndoClearsHistory(w) ==
    IF Len(w.actionHistory) = 0 THEN w
    ELSE LET lastAction == w.actionHistory[Len(w.actionHistory)] IN
         [w EXCEPT !.gameState = lastAction.previousState,
                   !.actionHistory = <<>>]

\* undoLastAction taking the oldest record (shift) instead of the newest.
MutUndoPopsOldest(w) ==
    IF Len(w.actionHistory) = 0 THEN w
    ELSE LET lastAction == w.actionHistory[1] IN
         [w EXCEPT !.gameState = lastAction.previousState,
                   !.actionHistory = Tail(@)]

\* undoLastAction without its empty-history guard, falling back to the
\* initial state when there is no record.
MutUndoNoEmptyGuard(w) ==
    [w EXCEPT !.gameState = IF Len(w.actionHistory) = 0 THEN EmptyGameState
                            ELSE w.actionHistory[Len(w.actionHistory)].previousState,
              !.actionHistory = SubSeq(@, 1, Len(@) - 1)]

\* undoLastAction restoring the snapshot but leaving its record in the history.
MutUndoKeepsRecord(w) ==
    IF Len(w.actionHistory) = 0 THEN w
    ELSE LET lastAction == w.actionHistory[Len(w.actionHistory)] IN
         [w EXCEPT !.gameState = lastAction.previousState]

undoLastAction(w) ==
    IF Len(w.actionHistory) = 0 THEN w
    ELSE LET lastAction == w.actionHistory[Len(w.actionHistory)] IN
         [w EXCEPT !.gameState = lastAction.previousState,
                   !.actionHistory = SubSeq(@, 1, Len(@) - 1)]

\* endGame also writing a record to the history.
MutEndGameSavesAction(w) ==
    [w EXCEPT !.gameState = [@ EXCEPT !.gameEnded = TRUE],
              !.actionHistory = Append(@, [type          |-> "endGame",
                                           previousState |-> JSONClone(w.gameState)])]

endGame(w) == [w EXCEPT !.gameState = [@ EXCEPT !.gameEnded = TRUE]]

\* The winner endGame announces in its toast:
\*   gameState.players.reduce((prev, current) =>
\*       prev.totalScore > current.totalScore ? prev : current)
\* reduce without an initial value starts from the first player and visits
\* the others in order; acc and k are positions in the players sequence.
RECURSIVE reduceWinner(_, _, _)
reduceWinner(players, acc, k) ==
    IF k > Len(players) THEN acc
    ELSE reduceWinner(players,
                      IF players[acc].totalScore > players[k].totalScore THEN acc ELSE k,
                      k + 1)

\* The 0-based index of the announced winner (the roster is never empty on
\* the game screen).
endGameWinner(gs) == reduceWinner(gs.players, 1, 2) - 1

\* [...gameState.players].map((player, index) => ({ ...player, originalIndex: index }))
withOriginalIndex(players) ==
    [k \in 1..Len(players) |->
        [name          |-> players[k].name,
         totalScore    |-> players[k].totalScore,
         roundScores   |-> players[k].roundScores,
         originalIndex |-> k - 1]]

\* The comparator with the operands swapped: ascending totals.
MutCompareAscending(a, b) == a.totalScore - b.totalScore

\* The comparator of the sort: (a, b) => b.totalScore - a.totalScore
compareTotals(a, b) == b.totalScore - a.totalScore

\* insertSorted placing an element before the elements it ties with.
RECURSIVE MutInsertSortedBeforeTies(_, _)
MutInsertSortedBeforeTies(sorted, x) ==
    IF sorted = <<>> THEN <<x>>
    ELSE IF compareTotals(Head(sorted), x) < 0
         THEN <<Head(sorted)>> \o MutInsertSortedBeforeTies(Tail(sorted), x)
         ELSE <<x>> \o sorted

\* Array.prototype.sort is stable (ECMAScript 2019): an element goes behind
\* every element the comparator does not put after it, so elements that
\* compare equal keep their order.
RECURSIVE insertSorted(_, _)
insertSorted(sorted, x) ==
    IF sorted = <<>> THEN <<x>>
    ELSE IF compareTotals(Head(sorted), x) <= 0
         THEN <<Head(sorted)>> \o insertSorted(Tail(sorted), x)
         ELSE <<x>> \o sorted

RECURSIVE sortFrom(_, _, _)
sortFrom(items, k, sorted) ==
    IF k > Len(items) THEN sorted
    ELSE sortFrom(items, k + 1, insertSorted(sorted, items[k]))

\* sortedPlayers of getLeaderPosition, and the list of the Game Over summary
sortedPlayers(gs) == sortFrom(withOriginalIndex(gs.players), 1, <<>>)

\* Array.prototype.findIndex on originalIndex: 0-based, -1 when absent
RECURSIVE findOriginalIndex(_, _, _)
findOriginalIndex(sorted, playerIndex, k) ==
    IF k > Len(sorted) THEN -1
    ELSE IF sorted[k].originalIndex = playerIndex THEN k - 1
         ELSE findOriginalIndex(sorted, playerIndex, k + 1)

getLeaderPosition(gs, playerIndex) ==
    findOriginalIndex(sortedPlayers(gs), playerIndex, 1) + 1

\* restartGame without the setGameState call that empties the ledger.
MutRestartKeepsGameState(w) ==
    MkWorld(w.gameState, <<>>, TRUE, w.numPlayers, Fill(w.numPlayers, <<>>))

\* restartGame without setActionHistory([]).
MutRestartKeepsHistory(w) ==
    [w EXCEPT !.showSetup = TRUE,
              !.playerNames = Fill(w.numPlayers, <<>>),
              !.gameState = EmptyGameState]

restartGame(w) ==
    [w EXCEPT !.showSetup = TRUE,
              !.playerNames = Fill(w.numPlayers, <<>>),
              !.gameState = EmptyGameState,
              !.actionHistory = <<>>]

(***************************************************************************)
(* Object identities.  A GameState value is a new top-level object and a   *)
(* new players array each time, but its player objects and their           *)
(* roundScores arrays may be those of an earlier value.  Every handler     *)
(* treats all players of a value alike, so one identity for the player     *)
(* objects of a value and one for their roundScores arrays is enough.      *)
(* Objects made by JSON.parse carry negative identities, the others        *)
(* non-negative ones.                                                      *)
(*                                                                         *)
(* heap.live  : the identities in gameState                                *)
(* heap.snaps : the identities in the previousState of each record         *)
(* heap.old   : what the value gameState held before the last handler      *)
(*              holds now                                                  *)
(***************************************************************************)
Ref(o, a) == [obj |-> o, arr |-> a]

InitHeap == [live |-> Ref(0, 0), snaps |-> <<>>, old |-> EmptyGameState]

UsedObj(h) == {h.live.obj} \cup {h.snaps[s].obj : s \in 1..Len(h.snaps)}

UsedArr(h) == {h.live.arr} \cup {h.snaps[s].arr : s \in 1..Len(h.snaps)}

\* An identity for an object made by a literal, a spread or a map.
freshMade(used) ==
    CHOOSE x \in 0..Cardinality(used) :
        x \notin used /\ \A y \in 0..(x - 1) : y \in used

\* An identity for an object made by JSON.parse.
freshParsed(used) ==
    CHOOSE x \in (-(Cardinality(used) + 1))..(-1) :
        x \notin used /\ \A y \in (x + 1)..(-1) : y \in used

\* previousState = gameState: the record keeps the live objects.
MutParsedRefsShared(h) == h.live

\* The identities in JSON.parse(JSON.stringify(gameState)): all new.
parsedRefs(h) == Ref(freshParsed(UsedObj(h)), freshParsed(UsedArr(h)))

HeapState(w, h) == [world |-> w, heap |-> h]

\* The writes of the updater of addPoint,
\*   newPlayers[playerIndex].roundScores[prev.currentRound] += 10
\*   newPlayers[playerIndex].totalScore += 10
\* as they show in a value gs holding the identities refs: newPlayers is a
\* copy of the array prev.players, its elements are the live player objects.
addPointWrites(gs, refs, live, playerIndex, currentRound) ==
    LET g1 == IF refs.arr = live.arr
              THEN [gs EXCEPT !.players[playerIndex + 1].roundScores[currentRound + 1] = @ + 10]
              ELSE gs
    IN  IF refs.obj = live.obj
        THEN [g1 EXCEPT !.players[playerIndex + 1].totalScore = @ + 10]
        ELSE g1

\* The write of the updater of resetCurrentRound into an existing object,
\*   newPlayer.roundScores[prev.currentRound] = 0
\* as it shows in a value gs holding the identities refs: newPlayer is a
\* spread copy of the player, its roundScores is the live array.  The total
\* is written to the copy.
resetWrites(gs, refs, live, currentRound) ==
    IF refs.arr = live.arr
    THEN [gs EXCEPT !.players = [k \in 1..Len(gs.players) |->
                                    [gs.players[k] EXCEPT
                                        !.roundScores[currentRound + 1] = 0]]]
    ELSE gs

\* A history after the writes of addPoint.
addPointWritten(hist, snaps, live, playerIndex, currentRound) ==
    [s \in 1..Len(hist) |->
        [hist[s] EXCEPT !.previousState =
            addPointWrites(@, snaps[s], live, playerIndex, currentRound)]]

\* A history after the write of resetCurrentRound.
resetWritten(hist, snaps, live, currentRound) ==
    [s \in 1..Len(hist) |->
        [hist[s] EXCEPT !.previousState = resetWrites(@, snaps[s], live, currentRound)]]

heapAddPoint(w, h, playerIndex) ==
    IF w.gameState.gameEnded THEN HeapState(w, h)
    ELSE LET currentRound == w.gameState.currentRound
             snaps == Append(h.snaps, parsedRefs(h))
             hist == addPoint(w, playerIndex).actionHistory
         IN  HeapState([w EXCEPT !.gameState = addPointUpdater(w.gameState, playerIndex),
                                 !.actionHistory =
                                     addPointWritten(hist, snaps, h.live,
                                                     playerIndex, currentRound)],
                       [live  |-> h.live,
                        snaps |-> snaps,
                        old   |-> addPointWrites(w.gameState, h.live, h.live,
                                                 playerIndex, currentRound)])

heapEndRound(w, h) ==
    IF w.gameState.gameEnded THEN HeapState(w, h)
    ELSE LET snaps == Append(h.snaps, parsedRefs(h)) IN
         HeapState(endRound(w),
                   [live  |-> Ref(freshMade(UsedObj(h)), freshMade(UsedArr(h))),
                    snaps |-> snaps,
                    old   |-> w.gameState])

heapResetCurrentRound(w, h) ==
    IF w.gameState.gameEnded THEN HeapState(w, h)
    ELSE LET currentRound == w.gameState.currentRound
             snaps == Append(h.snaps, parsedRefs(h))
             hist == resetCurrentRound(w).actionHistory
         IN  HeapState([w EXCEPT !.gameState = resetCurrentRoundUpdater(w.gameState),
                                 !.actionHistory =
                                     resetWritten(hist, snaps, h.live, currentRound)],
                       [live  |-> Ref(freshMade(UsedObj(h)), h.live.arr),
                        snaps |-> snaps,
                        old   |-> resetWrites(w.gameState, h.live, h.live, currentRound)])

\* setGameState(lastAction.previousState): the snapshot object itself
\* becomes the state.
heapUndoLastAction(w, h) ==
    IF Len(w.actionHistory) = 0 THEN HeapState(w, h)
    ELSE HeapState(undoLastAction(w),
                   [live  |-> h.snaps[Len(h.snaps)],
                    snaps |-> SubSeq(h.snaps, 1, Len(h.snaps) - 1),
                    old   |-> w.gameState])

\* {...prev, gameEnded: true}: the players array of prev is kept.
heapEndGame(w, h) ==
    HeapState(endGame(w), [h EXCEPT !.old = w.gameState])

(***************************************************************************)
(* The state machine.  lastCall records the handler the last event ran,    *)
(* its argument, and whether it returned early ("guard") or ran to its end *)
(* ("done").                                                               *)
(*                                                                         *)
(* The setup handlers belong to the setup screen and the ledger handlers   *)
(* to the game screen (the component returns one or the other on           *)
(* showSetup).  On the game screen the ledger handlers are callable        *)
(* whatever gameEnded is: addPoint, endRound and resetCurrentRound carry   *)
(* their own gameEnded guard, and the buttons the page renders only while  *)
(* !gameEnded are a second, outer line of defence.                         *)
(***************************************************************************)
Call(op, arg, ret) == [op |-> op, arg |-> arg, ret |-> ret]

Install(w) ==
    /\ gameState' = w.gameState
    /\ actionHistory' = w.actionHistory
    /\ showSetup' = w.showSetup
    /\ numPlayers' = w.numPlayers
    /\ playerNames' = w.playerNames

\* A step that does not follow object identities.
Become(w) ==
    /\ Install(w)
    /\ heap' = heap
    /\ UNCHANGED <<showWinnerAnimation, timeouts>>

Init ==
    /\ gameState = EmptyGameState
    /\ actionHistory = <<>>
    /\ showSetup = TRUE
    /\ numPlayers = 2
    /\ playerNames = <<<<>>, <<>>>>
    /\ lastCall = Call("mount", -1, "done")
    /\ heap = InitHeap
    /\ showWinnerAnimation = FALSE
    /\ timeouts = 0

ChangeNumPlayers ==
    \E v \in TypedCounts :
        /\ showSetup
        /\ Become(changeNumPlayers(World, v))
        /\ lastCall' = Call("changeNumPlayers", v, "done")

ChangePlayerName ==
    \E i \in 0..(numPlayers - 1), text \in NamePool :
        /\ showSetup
        /\ Become(changePlayerName(World, i, text))
        /\ lastCall' = Call("changePlayerName", i, "done")

HandleSetupComplete ==
    /\ showSetup
    /\ Become(handleSetupComplete(World))
    /\ lastCall' = Call("handleSetupComplete", -1,
                        IF Len(validNamesOf(playerNames)) < 2 THEN "guard" ELSE "done")

\* Room left in the explored history for one more record.
HasRoom == Len(actionHistory) < MaxHist

AddPoint ==
    \E playerIndex \in 0..(Len(gameState.players) - 1) :
        /\ ~showSetup
        /\ gameState.gameEnded \/ HasRoom
        /\ Become(addPoint(World, playerIndex))
        /\ lastCall' = Call("addPoint", playerIndex,
                            IF gameState.gameEnded THEN "guard" ELSE "done")

EndRound ==
    /\ ~showSetup
    /\ gameState.gameEnded \/ HasRoom
    /\ Become(endRound(World))
    /\ lastCall' = Call("endRound", -1, IF gameState.gameEnded THEN "guard" ELSE "done")

ResetCurrentRound ==
    /\ ~showSetup
    /\ gameState.gameEnded \/ HasRoom
    /\ Become(resetCurrentRound(World))
    /\ lastCall' = Call("resetRound", -1, IF gameState.gameEnded THEN "guard" ELSE "done")

UndoLastAction ==
    /\ ~showSetup
    /\ Become(undoLastAction(World))
    /\ lastCall' = Call("undo", -1, IF Len(actionHistory) = 0 THEN "guard" ELSE "done")

EndGame ==
    /\ ~showSetup
    /\ Become(endGame(World))
    /\ lastCall' = Call("endGame", -1, "done")

RestartGame ==
    /\ Become(restartGame(World))
    /\ lastCall' = Call("restart", -1, "done")

Next ==
    \/ ChangeNumPlayers
    \/ ChangePlayerName
    \/ HandleSetupComplete
    \/ AddPoint
    \/ EndRound
    \/ ResetCurrentRound
    \/ UndoLastAction
    \/ EndGame
    \/ RestartGame

(***************************************************************************)
(* The setup screen on its own, with more name fields: the count and name  *)
(* inputs, Start Game, and New Game to come back.                          *)
(***************************************************************************)
SetupChangeNumPlayers ==
    \E v \in 0..SetupMaxPlayers :
        /\ showSetup
        /\ Become(changeNumPlayers(World, v))
        /\ lastCall' = Call("changeNumPlayers", v, "done")

SetupNext ==
    \/ SetupChangeNumPlayers
    \/ ChangePlayerName
    \/ HandleSetupComplete
    \/ RestartGame

SetupSpec == Init /\ [][SetupNext]_vars

(***************************************************************************)
(* The ranking on its own: a game just started with RankPlayers players,   *)
(* points added in any order, undone, and the game ended.                  *)
(***************************************************************************)
RankLetters == <<"A", "B", "C", "D", "E">>

RankNames == [k \in 1..RankPlayers |-> <<RankLetters[k]>>]

RankInit ==
    /\ gameState = startState(RankNames)
    /\ actionHistory = <<>>
    /\ showSetup = FALSE
    /\ numPlayers = RankPlayers
    /\ playerNames = RankNames
    /\ lastCall = Call("handleSetupComplete", -1, "done")
    /\ heap = InitHeap
    /\ showWinnerAnimation = FALSE
    /\ timeouts = 0

RankAddPoint ==
    \E playerIndex \in 0..(Len(gameState.players) - 1) :
        /\ ~gameState.gameEnded
        /\ Len(actionHistory) < RankLen
        /\ Become(addPoint(World, playerIndex))
        /\ lastCall' = Call("addPoint", playerIndex, "done")

RankNext ==
    \/ RankAddPoint
    \/ UndoLastAction
    \/ EndGame

RankSpec == RankInit /\ [][RankNext]_vars

(***************************************************************************)
(* The count input on its own: any count up to CountMax is typed, every    *)
(* name field is left blank or filled with one letter, then Start Game.    *)
(* The min and max attributes of the input limit its spinner and its form  *)
(* validation, not the value handed to onChange.                           *)
(***************************************************************************)
CountChangeNumPlayers ==
    \E v \in 0..CountMax :
        /\ showSetup
        /\ Become(changeNumPlayers(World, v))
        /\ lastCall' = Call("changeNumPlayers", v, "done")

CountChangePlayerName ==
    \E i \in 0..(numPlayers - 1) :
        /\ showSetup
        /\ Become(changePlayerName(World, i, <<"A">>))
        /\ lastCall' = Call("changePlayerName", i, "done")

CountNext ==
    \/ CountChangeNumPlayers
    \/ CountChangePlayerName
    \/ HandleSetupComplete
    \/ RestartGame

CountSpec == Init /\ [][CountNext]_vars

(***************************************************************************)
(* The setup screen of the second variant of the page: the count is moved  *)
(* by a - and a + button, the name fields start as "Player 1", "Player 2"  *)
(* and an effect on numPlayers resizes the list of names after every       *)
(* change of the count.  The effect runs before the next event is handled, *)
(* so it is part of the step of the button.                                *)
(***************************************************************************)
\* `Player ${i + 1}`, the number kept as one token
defaultName(i) == <<"P", ToString(i + 1)>>

handlePlayerCountChange(w, increment) ==
    IF increment /\ w.numPlayers < stepperMax THEN [w EXCEPT !.numPlayers = @ + 1]
    ELSE IF ~increment /\ w.numPlayers > stepperMin THEN [w EXCEPT !.numPlayers = @ - 1]
    ELSE w

\* The effect filling blanks with the default names without resizing.
MutPlayerNamesEffectKeepsLength(w) ==
    [w EXCEPT !.playerNames =
        [k \in 1..Len(w.playerNames) |->
            IF w.playerNames[k] # <<>> THEN w.playerNames[k] ELSE defaultName(k - 1)]]

\* useEffect(() => setPlayerNames(Array.from({length: numPlayers},
\*     (_, i) => playerNames[i] || `Player ${i + 1}`)), [numPlayers])
playerNamesEffect(w) ==
    [w EXCEPT !.playerNames =
        [k \in 1..w.numPlayers |->
            IF k <= Len(w.playerNames) /\ w.playerNames[k] # <<>>
            THEN w.playerNames[k]
            ELSE defaultName(k - 1)]]

stepperRestartGame(w) ==
    MkWorld(EmptyGameState, <<>>, TRUE, w.numPlayers,
            [k \in 1..w.numPlayers |-> defaultName(k - 1)])

\* The state after the mount and its effects.
StepperInit ==
    /\ gameState = EmptyGameState
    /\ actionHistory = <<>>
    /\ showSetup = TRUE
    /\ numPlayers = 2
    /\ playerNames = playerNamesEffect(
                         MkWorld(EmptyGameState, <<>>, TRUE, 2,
                                 <<defaultName(0), defaultName(1)>>)).playerNames
    /\ lastCall = Call("mount", -1, "done")
    /\ heap = InitHeap
    /\ showWinnerAnimation = FALSE
    /\ timeouts = 0

HandlePlayerCountChange ==
    \E increment \in BOOLEAN :
        LET w == handlePlayerCountChange(World, increment) IN
        /\ showSetup
        /\ Become(IF w.numPlayers # numPlayers THEN playerNamesEffect(w) ELSE w)
        /\ lastCall' = Call("handlePlayerCountChange", IF increment THEN 1 ELSE 0,
                            IF w.numPlayers # numPlayers THEN "done" ELSE "guard")

StepperChangePlayerName ==
    \E i \in 0..(StepperEditFields - 1), text \in {<<>>, <<" ">>, <<"A">>} :
        /\ showSetup
        /\ i < numPlayers
        /\ Become(changePlayerName(World, i, text))
        /\ lastCall' = Call("changePlayerName", i, "done")

StepperRestartGame ==
    /\ Become(stepperRestartGame(World))
    /\ lastCall' = Call("restart", -1, "done")

StepperNext ==
    \/ HandlePlayerCountChange
    \/ StepperChangePlayerName
    \/ HandleSetupComplete
    \/ StepperRestartGame

StepperSpec == StepperInit /\ [][StepperNext]_vars

(***************************************************************************)
(* addPoint called with any index, the positions of players and the two    *)
(* nearest numbers outside them.  With an index outside players,           *)
(* newPlayers[playerIndex] is undefined: the updater handed to             *)
(* setGameState throws a TypeError when React runs it, and so does the     *)
(* toast line of the handler.  The page has no error boundary, so React    *)
(* gives up the render and unmounts the component: its state cells are     *)
(* gone and no handler can be called any more.                             *)
(***************************************************************************)
\* What is left of a state cell of an unmounted component.
NoState == [unmounted |-> TRUE]

UnmountedWorld == MkWorld(NoState, NoState, NoState, NoState, NoState)

addPointThrows(w, playerIndex) ==
    /\ ~w.gameState.gameEnded
    /\ playerIndex \notin 0..(Len(w.gameState.players) - 1)

addPointAnyIndex(w, playerIndex) ==
    IF addPointThrows(w, playerIndex) THEN UnmountedWorld
    ELSE addPoint(w, playerIndex)

Mounted == lastCall.ret # "throw"

AddPointAnyIndex ==
    /\ Mounted
    /\ ~showSetup
    /\ gameState.gameEnded \/ HasRoom
    /\ \E playerIndex \in (-1)..Len(gameState.players) :
           /\ Become(addPointAnyIndex(World, playerIndex))
           /\ lastCall' = Call("addPoint", playerIndex,
                               IF gameState.gameEnded THEN "guard"
                               ELSE IF addPointThrows(World, playerIndex) THEN "throw"
                               ELSE "done")

IndexNext ==
    \/ Mounted /\ ChangeNumPlayers
    \/ Mounted /\ ChangePlayerName
    \/ Mounted /\ HandleSetupComplete
    \/ AddPointAnyIndex
    \/ Mounted /\ EndRound
    \/ Mounted /\ ResetCurrentRound
    \/ Mounted /\ UndoLastAction
    \/ Mounted /\ EndGame
    \/ Mounted /\ RestartGame

IndexSpec == Init /\ [][IndexNext]_vars

(***************************************************************************)
(* The ledger with object identities: a game just started with HeapPlayers *)
(* players, and the five ledger handlers with their writes into existing   *)
(* objects, up to HeapLen records.                                         *)
(***************************************************************************)
HeapNames == [k \in 1..HeapPlayers |-> <<RankLetters[k]>>]

HeapInit ==
    /\ gameState = startState(HeapNames)
    /\ actionHistory = <<>>
    /\ showSetup = FALSE
    /\ numPlayers = HeapPlayers
    /\ playerNames = HeapNames
    /\ lastCall = Call("handleSetupComplete", -1, "done")
    /\ heap = InitHeap
    /\ showWinnerAnimation = FALSE
    /\ timeouts = 0

BecomeHeap(s) ==
    /\ Install(s.world)
    /\ heap' = s.heap
    /\ UNCHANGED <<showWinnerAnimation, timeouts>>

HeapHasRoom == Len(actionHistory) < HeapLen

HeapAddPoint ==
    \E playerIndex \in 0..(Len(gameState.players) - 1) :
        /\ gameState.gameEnded \/ HeapHasRoom
        /\ BecomeHeap(heapAddPoint(World, heap, playerIndex))
        /\ lastCall' = Call("addPoint", playerIndex,
                            IF gameState.gameEnded THEN "guard" ELSE "done")

HeapEndRound ==
    /\ gameState.gameEnded \/ HeapHasRoom
    /\ BecomeHeap(heapEndRound(World, heap))
    /\ lastCall' = Call("endRound", -1, IF gameState.gameEnded THEN "guard" ELSE "done")

HeapResetCurrentRound ==
    /\ gameState.gameEnded \/ HeapHasRoom
    /\ BecomeHeap(heapResetCurrentRound(World, heap))
    /\ lastCall' = Call("resetRound", -1, IF gameState.gameEnded THEN "guard" ELSE "done")

HeapUndoLastAction ==
    /\ BecomeHeap(heapUndoLastAction(World, heap))
    /\ lastCall' = Call("undo", -1, IF Len(actionHistory) = 0 THEN "guard" ELSE "done")

HeapEndGame ==
    /\ BecomeHeap(heapEndGame(World, heap))
    /\ lastCall' = Call("endGame", -1, "done")

HeapNext ==
    \/ HeapAddPoint
    \/ HeapEndRound
    \/ HeapResetCurrentRound
    \/ HeapUndoLastAction
    \/ HeapEndGame

HeapSpec == HeapInit /\ [][HeapNext]_vars

(***************************************************************************)
(* The ledger of the second variant of the page (src/unnamed/part_000),    *)
(* written out from its own handlers: a game just started with             *)
(* VariantPlayers players, its five ledger handlers, the timeout that      *)
(* hides the winner overlay, New Game and Start Game.                      *)
(***************************************************************************)
stepperSaveAction(hist, action) == hist \o <<action>>

stepperAddPoint(w, playerIndex) ==
    IF w.gameState.gameEnded THEN w
    ELSE LET previousState == JSONClone(w.gameState)
             prev == w.gameState
             newPlayers ==
                 [k \in 1..Len(prev.players) |->
                     IF k = playerIndex + 1
                     THEN [name        |-> prev.players[k].name,
                           totalScore  |-> prev.players[k].totalScore + 10,
                           roundScores |->
                               [r \in 1..Len(prev.players[k].roundScores) |->
                                   IF r = prev.currentRound + 1
                                   THEN prev.players[k].roundScores[r] + 10
                                   ELSE prev.players[k].roundScores[r]]]
                     ELSE prev.players[k]]
         IN  [w EXCEPT !.gameState = [prev EXCEPT !.players = newPlayers],
                       !.actionHistory =
                           stepperSaveAction(@, [type          |-> "addPoint",
                                                 playerIndex   |-> playerIndex,
                                                 roundIndex    |-> w.gameState.currentRound,
                                                 previousState |-> previousState])]

stepperEndRound(w) ==
    IF w.gameState.gameEnded THEN w
    ELSE LET previousState == JSONClone(w.gameState)
             prev == w.gameState
         IN  [w EXCEPT !.gameState =
                           [players      |-> [k \in 1..Len(prev.players) |->
                                                 [name        |-> prev.players[k].name,
                                                  totalScore  |-> prev.players[k].totalScore,
                                                  roundScores |->
                                                      prev.players[k].roundScores \o <<0>>]],
                            currentRound |-> prev.currentRound + 1,
                            gameEnded    |-> prev.gameEnded],
                       !.actionHistory =
                           stepperSaveAction(@, [type          |-> "endRound",
                                                 previousState |-> previousState])]

stepperResetCurrentRound(w) ==
    IF w.gameState.gameEnded THEN w
    ELSE LET previousState == JSONClone(w.gameState)
             prev == w.gameState
             newPlayers ==
                 [k \in 1..Len(prev.players) |->
                     LET player == prev.players[k]
                         currentRoundScore == player.roundScores[prev.currentRound + 1]
                     IN  [name        |-> player.name,
                          totalScore  |-> player.totalScore - currentRoundScore,
                          roundScores |-> [r \in 1..Len(player.roundScores) |->
                                              IF r = prev.currentRound + 1 THEN 0
                                              ELSE player.roundScores[r]]]]
         IN  [w EXCEPT !.gameState = [prev EXCEPT !.players = newPlayers],
                       !.actionHistory =
                           stepperSaveAction(@, [type          |-> "resetRound",
                                                 previousState |-> previousState])]

\* stepperUndoLastAction refusing to undo once the game has ended.
MutStepperUndoGuardsEnded(w) ==
    IF Len(w.actionHistory) = 0 \/ w.gameState.gameEnded THEN w
    ELSE [w EXCEPT !.gameState = w.actionHistory[Len(w.actionHistory)].previousState,
                   !.actionHistory = SubSeq(@, 1, Len(@) - 1)]

stepperUndoLastAction(w) ==
    IF Len(w.actionHistory) = 0 THEN w
    ELSE LET lastAction == w.actionHistory[Len(w.actionHistory)] IN
         [w EXCEPT !.gameState = lastAction.previousState,
                   !.actionHistory = SubSeq(@, 1, Len(@) - 1)]

\* The state cells endGame sets other than showWinnerAnimation.
stepperEndGame(w) ==
    [w EXCEPT !.gameState = [players      |-> w.gameState.players,
                             currentRound |-> w.gameState.currentRound,
                             gameEnded    |-> TRUE]]

VariantNames == [k \in 1..VariantPlayers |-> <<RankLetters[k]>>]

VariantInit ==
    /\ gameState = startState(VariantNames)
    /\ actionHistory = <<>>
    /\ showSetup = FALSE
    /\ numPlayers = VariantPlayers
    /\ playerNames = VariantNames
    /\ lastCall = Call("handleSetupComplete", -1, "done")
    /\ heap = InitHeap
    /\ showWinnerAnimation = FALSE
    /\ timeouts = 0

\* A step of the second variant that leaves the overlay alone.
BecomeVariant(w) ==
    /\ Install(w)
    /\ heap' = heap
    /\ UNCHANGED <<showWinnerAnimation, timeouts>>

VariantHasRoom == Len(actionHistory) < VariantLen

VariantAddPoint ==
    \E playerIndex \in 0..(Len(gameState.players) - 1) :
        /\ ~showSetup
        /\ gameState.gameEnded \/ VariantHasRoom
        /\ BecomeVariant(stepperAddPoint(World, playerIndex))
        /\ lastCall' = Call("addPoint", playerIndex,
                            IF gameState.gameEnded THEN "guard" ELSE "done")

VariantEndRound ==
    /\ ~showSetup
    /\ gameState.gameEnded \/ VariantHasRoom
    /\ BecomeVariant(stepperEndRound(World))
    /\ lastCall' = Call("endRound", -1, IF gameState.gameEnded THEN "guard" ELSE "done")

VariantResetCurrentRound ==
    /\ ~showSetup
    /\ gameState.gameEnded \/ VariantHasRoom
    /\ BecomeVariant(stepperResetCurrentRound(World))
    /\ lastCall' = Call("resetRound", -1, IF gameState.gameEnded THEN "guard" ELSE "done")

VariantUndoLastAction ==
    /\ ~showSetup
    /\ BecomeVariant(stepperUndoLastAction(World))
    /\ lastCall' = Call("undo", -1, IF Len(actionHistory) = 0 THEN "guard" ELSE "done")

\* endGame: the overlay is shown and a timeout of 3 s is set to hide it.
VariantEndGame ==
    /\ ~showSetup
    /\ timeouts < VariantTimeouts
    /\ Install(stepperEndGame(World))
    /\ heap' = heap
    /\ showWinnerAnimation' = TRUE
    /\ timeouts' = timeouts + 1
    /\ lastCall' = Call("endGame", -1, "done")

\* setTimeout(() => setShowWinnerAnimation(false), 3000) comes due.
VariantTimeout ==
    /\ timeouts > 0
    /\ Install(World)
    /\ heap' = heap
    /\ showWinnerAnimation' = FALSE
    /\ timeouts' = timeouts - 1
    /\ lastCall' = Call("timeout", -1, "done")

VariantRestartGame ==
    /\ Install(stepperRestartGame(World))
    /\ heap' = heap
    /\ showWinnerAnimation' = FALSE
    /\ timeouts' = timeouts
    /\ lastCall' = Call("restart", -1, "done")

VariantHandleSetupComplete ==
    /\ showSetup
    /\ BecomeVariant(handleSetupComplete(World))
    /\ lastCall' = Call("handleSetupComplete", -1,
                        IF Len(validNamesOf(playerNames)) < 2 THEN "guard" ELSE "done")

VariantNext ==
    \/ VariantAddPoint
    \/ VariantEndRound
    \/ VariantResetCurrentRound
    \/ VariantUndoLastAction
    \/ VariantEndGame
    \/ VariantTimeout
    \/ VariantRestartGame
    \/ VariantHandleSetupComplete

VariantSpec == VariantInit /\ [][VariantNext]_vars

Spec == Init /\ [][Next]_vars

(***************************************************************************)
(* Properties.                                                             *)
(***************************************************************************)
InGame == ~showSetup

Active == InGame /\ ~gameState.gameEnded

PlayerIndices == 0..(Len(gameState.players) - 1)

\* The handlers of the ledger.
LedgerOps == {"addPoint", "endRound", "resetRound", "undo", "endGame"}

\* n applications of undoLastAction
RECURSIVE UndoTimes(_, _)
UndoTimes(w, n) == IF n = 0 THEN w ELSE UndoTimes(undoLastAction(w), n - 1)

\* C1: in every reachable state every player's totalScore is the sum of that
\* player's roundScores.
C1_TotalIsSumOfRounds ==
    \A k \in 1..Len(gameState.players) :
        gameState.players[k].totalScore = SumSeq(gameState.players[k].roundScores)

\* A player who scored in two different rounds.
C1_Witness ==
    /\ InGame
    /\ \E k \in 1..Len(gameState.players) :
           /\ gameState.players[k].roundScores = <<10, 10>>
           /\ gameState.players[k].totalScore = 20

\* C2: in every in-game state with gameEnded false every player's
\* roundScores has exactly currentRound + 1 entries.
C2_RoundScoresLength ==
    Active =>
        \A k \in 1..Len(gameState.players) :
            Len(gameState.players[k].roundScores) = gameState.currentRound + 1

\* An undo that took the game back from round 2 to round 1 (0-based).
C2_Witness ==
    /\ Active
    /\ lastCall = Call("undo", -1, "done")
    /\ gameState.currentRound = 1
    /\ Len(actionHistory) = 1

\* C3: from every active state, addPoint(i), endRound or resetRound followed
\* at once by undo gives back the same LedgerState and the same history.
C3_UndoRoundTrip ==
    Active =>
        /\ \A i \in PlayerIndices : undoLastAction(addPoint(World, i)) = World
        /\ undoLastAction(endRound(World)) = World
        /\ undoLastAction(resetCurrentRound(World)) = World

\* An undo has just brought a game that had a record and a score back to the
\* state of that record.
C3_Witness ==
    /\ Active
    /\ lastCall = Call("undo", -1, "done")
    /\ Len(actionHistory) = 1
    /\ gameState.players[1].totalScore = 10

\* C4: in an active game whose history holds N records, N undos (and no
\* fewer) lead to the post-setup state with an empty history, and one more
\* undo changes nothing.
C4_HistoryDepth ==
    Active =>
        LET N == Len(actionHistory)
            back == UndoTimes(World, N)
        IN  /\ back.gameState = startState(playerNames)
            /\ \A k \in 1..Len(back.gameState.players) :
                   /\ back.gameState.players[k].totalScore = 0
                   /\ back.gameState.players[k].roundScores = <<0>>
            /\ Len(back.gameState.players) = Len(gameState.players)
            /\ back.gameState.currentRound = 0
            /\ ~back.gameState.gameEnded
            /\ back.actionHistory = <<>>
            /\ \A m \in 0..(N - 1) : UndoTimes(World, m).actionHistory # <<>>
            /\ undoLastAction(back) = back
            /\ back.showSetup = showSetup

\* A full history built by mutating calls only, the last one an addPoint.
C4_Witness ==
    /\ Active
    /\ Len(actionHistory) = MaxHist
    /\ lastCall.op = "addPoint"
    /\ gameState.currentRound > 0

\* C5: an undo on a non-empty history drops exactly the newest record and
\* installs that record's snapshot as the LedgerState; every other step
\* leaves the history alone, appends one record holding the state before the
\* step, or (start, restart) empties it.
C5_HistoryIsLifo ==
    [][ /\ (lastCall'.op = "undo" /\ actionHistory # <<>>) =>
               /\ actionHistory' = Front(actionHistory)
               /\ gameState' = Last(actionHistory).previousState
        /\ \/ actionHistory' = actionHistory
           \/ /\ lastCall'.op \in {"addPoint", "endRound", "resetRound"}
              /\ Len(actionHistory') = Len(actionHistory) + 1
              /\ Front(actionHistory') = actionHistory
              /\ Last(actionHistory').previousState = gameState
              /\ Last(actionHistory').type = lastCall'.op
           \/ /\ lastCall'.op = "undo"
              /\ actionHistory # <<>>
              /\ actionHistory' = Front(actionHistory)
           \/ /\ lastCall'.op \in {"handleSetupComplete", "restart"}
              /\ actionHistory' = <<>>
      ]_vars

\* An undo that left an older record in place.
C5_Witness ==
    /\ lastCall = Call("undo", -1, "done")
    /\ Len(actionHistory) = MaxHist - 1
    /\ actionHistory[1].type = "endRound"

\* C6: an undo on an empty history changes neither the LedgerState nor the
\* history.
C6_UndoOnEmptyHistory ==
    [][ (lastCall'.op = "undo" /\ actionHistory = <<>>) =>
            /\ gameState' = gameState
            /\ actionHistory' = <<>>
            /\ lastCall'.ret = "guard"
      ]_vars

\* The undo handler returned at its guard.
C6_Witness ==
    /\ InGame
    /\ lastCall = Call("undo", -1, "guard")
    /\ actionHistory = <<>>

\* C7: once gameEnded is true, addPoint, endRound and resetRound change
\* neither the LedgerState nor the history.
C7_EndedGameIgnoresMutations ==
    [][ (gameState.gameEnded /\ lastCall'.op \in {"addPoint", "endRound", "resetRound"}) =>
            /\ gameState' = gameState
            /\ actionHistory' = actionHistory
      ]_vars

\* resetRound was called on an ended game that has scores and a history.
C7_Witness ==
    /\ gameState.gameEnded
    /\ lastCall = Call("resetRound", -1, "guard")
    /\ actionHistory # <<>>
    /\ gameState.players[1].roundScores[gameState.currentRound + 1] > 0

\* C8: an undo called while gameEnded is true changes neither the
\* LedgerState nor the history.
C8_UndoIgnoredAfterEnd ==
    [][ (gameState.gameEnded /\ lastCall'.op = "undo") =>
            /\ gameState' = gameState
            /\ actionHistory' = actionHistory
      ]_vars

\* C9: once gameEnded is true it stays true under addPoint, endRound,
\* resetRound, undo and endGame.
C9_EndGameIrreversible ==
    [][ (gameState.gameEnded /\ lastCall'.op \in LedgerOps) => gameState'.gameEnded ]_vars

\* C10: addPoint(i) on an active game adds 10 to player i's entry of the
\* current round and to player i's total, appends one addPoint record, and
\* changes nothing else.
C10_AddPointFrame ==
    [][ (~gameState.gameEnded /\ lastCall'.op = "addPoint") =>
            LET i == lastCall'.arg + 1
                r == gameState.currentRound + 1
                old == gameState.players
                new == gameState'.players
            IN  /\ Len(new) = Len(old)
                /\ new[i].roundScores[r] = old[i].roundScores[r] + 10
                /\ new[i].totalScore = old[i].totalScore + 10
                /\ new[i].name = old[i].name
                /\ Len(new[i].roundScores) = Len(old[i].roundScores)
                /\ \A q \in 1..Len(old[i].roundScores) :
                       q # r => new[i].roundScores[q] = old[i].roundScores[q]
                /\ \A k \in 1..Len(old) : k # i => new[k] = old[k]
                /\ gameState'.currentRound = gameState.currentRound
                /\ gameState'.gameEnded = gameState.gameEnded
                /\ Len(actionHistory') = Len(actionHistory) + 1
                /\ Front(actionHistory') = actionHistory
                /\ Last(actionHistory').type = "addPoint"
                /\ Last(actionHistory').playerIndex = lastCall'.arg
      ]_vars

\* A point added for the last player in a later round, after an earlier
\* score of the same player.
C10_Witness ==
    /\ Active
    /\ lastCall = Call("addPoint", Len(gameState.players) - 1, "done")
    /\ gameState.currentRound = 1
    /\ gameState.players[Len(gameState.players)].roundScores = <<10, 10>>

\* C11: endRound on an active game gives every player exactly one new
\* trailing entry 0, raises currentRound by one and leaves earlier entries
\* and totals alone; no step leads to a state in which two players differ
\* in the number of their round entries.
C11_EndRoundAtomic ==
    [][ /\ \A k \in 1..Len(gameState'.players) :
               Len(gameState'.players[k].roundScores) =
                   Len(gameState'.players[1].roundScores)
        /\ (~gameState.gameEnded /\ lastCall'.op = "endRound") =>
               /\ Len(gameState'.players) = Len(gameState.players)
               /\ \A k \in 1..Len(gameState.players) :
                      /\ gameState'.players[k].roundScores =
                             gameState.players[k].roundScores \o <<0>>
                      /\ gameState'.players[k].totalScore = gameState.players[k].totalScore
                      /\ gameState'.players[k].name = gameState.players[k].name
               /\ gameState'.currentRound = gameState.currentRound + 1
               /\ gameState'.gameEnded = gameState.gameEnded
      ]_vars

\* endRound closed a round in which the last player had scored.
C11_Witness ==
    /\ Active
    /\ lastCall = Call("endRound", -1, "done")
    /\ gameState.currentRound = 1
    /\ gameState.players[1].roundScores = <<0, 0>>
    /\ gameState.players[Len(gameState.players)].roundScores = <<10, 0>>

\* C12: resetRound on an active game sets every player's entry of the
\* current round to 0 and lowers the total by what the entry held; earlier
\* entries, currentRound and gameEnded stay, so each total becomes the sum
\* of the earlier rounds.
C12_ResetRoundEffect ==
    [][ (~gameState.gameEnded /\ lastCall'.op = "resetRound") =>
            LET r == gameState.currentRound + 1 IN
            /\ Len(gameState'.players) = Len(gameState.players)
            /\ \A k \in 1..Len(gameState.players) :
                   LET old == gameState.players[k]
                       new == gameState'.players[k]
                   IN  /\ new.roundScores[r] = 0
                       /\ new.totalScore = old.totalScore - old.roundScores[r]
                       /\ Len(new.roundScores) = Len(old.roundScores)
                       /\ \A q \in 1..Len(old.roundScores) :
                              q # r => new.roundScores[q] = old.roundScores[q]
                       /\ new.totalScore = SumSeq(SubSeq(old.roundScores, 1, r - 1))
                       /\ new.name = old.name
            /\ gameState'.currentRound = gameState.currentRound
            /\ gameState'.gameEnded = gameState.gameEnded
      ]_vars

\* A reset that cleared two addPoint calls of one player.
C12_Witness ==
    /\ Active
    /\ lastCall = Call("resetRound", -1, "done")
    /\ Len(actionHistory) = 3
    /\ Last(actionHistory).previousState.players[1].totalScore = 20
    /\ gameState.players[1].totalScore = 0
    /\ gameState.players[1].roundScores = <<0>>

\* C13: from every active state a second resetRound right after a first
\* leaves the LedgerState the first one produced.
C13_ResetRoundIdempotent ==
    Active =>
        resetCurrentRound(resetCurrentRound(World)).gameState =
            resetCurrentRound(World).gameState

\* Two resets in a row after a score.
C13_Witness ==
    /\ Active
    /\ lastCall = Call("resetRound", -1, "done")
    /\ Len(actionHistory) = 3
    /\ actionHistory[2].type = "resetRound"
    /\ actionHistory[3].type = "resetRound"
    /\ actionHistory[2].previousState.players[1].totalScore = 10

\* A text with a character that is not a space.
NonBlank(name) == \E k \in 1..Len(name) : name[k] # " "

\* The positions of the name fields that hold a non-blank text.
NonBlankFields(names) == {k \in 1..Len(names) : NonBlank(names[k])}

\* The j-th non-blank field, in input order.
NthNonBlank(names, j) ==
    CHOOSE k \in NonBlankFields(names) :
        Cardinality({m \in NonBlankFields(names) : m <= k}) = j

\* t is s without its leading and trailing spaces.
IsTrimOf(t, s) ==
    \E a \in 0..Len(s) :
        /\ a + Len(t) <= Len(s)
        /\ t = SubSeq(s, a + 1, a + Len(t))
        /\ \A k \in 1..a : s[k] = " "
        /\ \A k \in (a + Len(t) + 1)..Len(s) : s[k] = " "
        /\ t # <<>> => (t[1] # " " /\ t[Len(t)] # " ")

\* C14: Start Game with fewer than two non-blank names fails and changes
\* neither the ledger, nor the history, nor the mode, nor the setup inputs.
C14_StartNeedsTwoNames ==
    [][ (lastCall'.op = "handleSetupComplete"
            /\ Cardinality(NonBlankFields(playerNames)) < 2) =>
            /\ lastCall'.ret = "guard"
            /\ UNCHANGED <<gameState, actionHistory, showSetup, numPlayers, playerNames>>
      ]_vars

\* Start Game refused on an empty, a blank and one real name.
C14_Witness ==
    /\ showSetup
    /\ lastCall = Call("handleSetupComplete", -1, "guard")
    /\ playerNames = << <<>>, <<" ">>, <<"A">> >>

\* C15: Start Game with at least two non-blank names makes one player per
\* non-blank name, in input order, with the trimmed name, total 0 and
\* roundScores <<0>>; round 0, not ended, empty history, game screen.
C15_StartBuildsRoster ==
    [][ (lastCall'.op = "handleSetupComplete"
            /\ Cardinality(NonBlankFields(playerNames)) >= 2) =>
            /\ lastCall'.ret = "done"
            /\ Len(gameState'.players) = Cardinality(NonBlankFields(playerNames))
            /\ \A j \in 1..Len(gameState'.players) :
                   /\ IsTrimOf(gameState'.players[j].name,
                               playerNames[NthNonBlank(playerNames, j)])
                   /\ gameState'.players[j].totalScore = 0
                   /\ gameState'.players[j].roundScores = <<0>>
            /\ gameState'.currentRound = 0
            /\ ~gameState'.gameEnded
            /\ actionHistory' = <<>>
            /\ ~showSetup'
      ]_vars

\* A start that dropped a blank field and trimmed a padded name, the padded
\* name first.
C15_Witness ==
    /\ ~showSetup
    /\ lastCall = Call("handleSetupComplete", -1, "done")
    /\ playerNames = << <<" ", "B">>, <<" ">>, <<"A">> >>
    /\ Len(gameState.players) = 2
    /\ gameState.players[1].name = <<"B">>
    /\ gameState.players[2].name = <<"A">>

\* The largest total on the board.
MaxTotal(players) ==
    CHOOSE t \in {players[k].totalScore : k \in 1..Len(players)} :
        \A k \in 1..Len(players) : players[k].totalScore <= t

\* The 0-based index of the first player, in roster order, holding the
\* largest total.
FirstLeader(players) ==
    (CHOOSE k \in 1..Len(players) :
        /\ players[k].totalScore = MaxTotal(players)
        /\ \A m \in 1..(k - 1) : players[m].totalScore < MaxTotal(players)) - 1

\* C16: the winner endGame reports has the maximum total and, among the
\* players sharing it, comes first in roster order.
C16_WinnerIsFirstMax ==
    lastCall.op = "endGame" =>
        /\ gameState.players[endGameWinner(gameState) + 1].totalScore =
               MaxTotal(gameState.players)
        /\ endGameWinner(gameState) = FirstLeader(gameState.players)

\* C17: endGame sets gameEnded and changes nothing else: players,
\* currentRound and the history stay as they are, and on an ended game the
\* state stays as it is.
C17_EndGameFrame ==
    [][ lastCall'.op = "endGame" =>
            /\ gameState'.gameEnded
            /\ gameState'.players = gameState.players
            /\ gameState'.currentRound = gameState.currentRound
            /\ actionHistory' = actionHistory
            /\ gameState.gameEnded => gameState' = gameState
            /\ UNCHANGED <<showSetup, numPlayers, playerNames>>
      ]_vars

\* endGame on a game with a score, a second round and a history.
C17_Witness ==
    /\ lastCall = Call("endGame", -1, "done")
    /\ gameState.gameEnded
    /\ gameState.currentRound = 1
    /\ Len(actionHistory) = 2
    /\ gameState.players[1].totalScore = 10

\* C18: the leader position is the 1-based place in a stable descending
\* sort by total: a larger total comes earlier, equal totals keep roster
\* order, and the positions of the n players are exactly 1..n.
C18_RankIsStableDescending ==
    InGame =>
        LET pos(i) == getLeaderPosition(gameState, i)
            total(i) == gameState.players[i + 1].totalScore
        IN  /\ \A i, j \in PlayerIndices :
                   /\ total(i) > total(j) => pos(i) < pos(j)
                   /\ (total(i) = total(j) /\ i < j) => pos(i) < pos(j)
            /\ {pos(i) : i \in PlayerIndices} = 1..Len(gameState.players)

\* Totals 20, 20, 10 ranked 1, 2, 3.
C18_Witness ==
    /\ InGame
    /\ Len(gameState.players) = 3
    /\ gameState.players[1].totalScore = 20
    /\ gameState.players[2].totalScore = 20
    /\ gameState.players[3].totalScore = 10
    /\ getLeaderPosition(gameState, 0) = 1
    /\ getLeaderPosition(gameState, 1) = 2
    /\ getLeaderPosition(gameState, 2) = 3

\* C19: in every in-game state exactly one player has leader position 1:
\* the first in roster order among those with the maximum total.
C19_SingleLeader ==
    InGame =>
        /\ Cardinality({i \in PlayerIndices : getLeaderPosition(gameState, i) = 1}) = 1
        /\ getLeaderPosition(gameState, FirstLeader(gameState.players)) = 1

\* A reset that tied everyone at 0 after the second player had led.
C19_Witness ==
    /\ Active
    /\ lastCall = Call("resetRound", -1, "done")
    /\ Last(actionHistory).previousState.players[2].totalScore = 10
    /\ \A k \in 1..Len(gameState.players) : gameState.players[k].totalScore = 0
    /\ getLeaderPosition(gameState, 0) = 1
    /\ getLeaderPosition(gameState, 1) = 2

RosterNames(gs) == [k \in 1..Len(gs.players) |-> gs.players[k].name]

\* C24: between a successful start and the next restart the roster is fixed:
\* no addPoint, endRound, resetRound, undo or endGame changes the number of
\* players, their order or their names, and the snapshots kept in the history
\* carry the same roster.
C24_RosterFixed ==
    [][ lastCall'.op \in LedgerOps =>
            /\ RosterNames(gameState') = RosterNames(gameState)
            /\ \A s \in 1..Len(actionHistory') :
                   RosterNames(actionHistory'[s].previousState) = RosterNames(gameState)
      ]_vars

\* An undo of an endRound in a game of two differently named players.
C24_Witness ==
    /\ lastCall = Call("undo", -1, "done")
    /\ Len(gameState.players) = 2
    /\ gameState.players[1].name # gameState.players[2].name
    /\ actionHistory # <<>>
    /\ Last(actionHistory).type = "endRound"

\* The number of endRound records in a history.
EndRoundRecords(hist) == Cardinality({s \in 1..Len(hist) : hist[s].type = "endRound"})

\* C27: in every in-game state currentRound is the number of endRound
\* records in the history, hence never negative.
C27_RoundCountsEndRounds ==
    InGame =>
        /\ gameState.currentRound = EndRoundRecords(actionHistory)
        /\ gameState.currentRound >= 0

\* An undo that left one endRound record among other records.
C27_Witness ==
    /\ lastCall = Call("undo", -1, "done")
    /\ gameState.currentRound = 1
    /\ EndRoundRecords(actionHistory) = 1
    /\ Len(actionHistory) > 1

\* The state a record's action leaves when applied to the record's snapshot.
ApplyRecord(rec) ==
    CASE rec.type = "addPoint"   -> addPointUpdater(rec.previousState, rec.playerIndex)
      [] rec.type = "endRound"   -> endRoundUpdater(rec.previousState)
      [] rec.type = "resetRound" -> resetCurrentRoundUpdater(rec.previousState)

\* C28: the history is a replay log: when it is not empty its oldest
\* snapshot is the state the setup left, every later snapshot is the
\* preceding record's action applied to the preceding snapshot, and the
\* current state, gameEnded aside, is the newest record's action applied to
\* the newest snapshot.
C28_HistoryIsReplayLog ==
    (InGame /\ actionHistory # <<>>) =>
        /\ actionHistory[1].previousState = startState(playerNames)
        /\ \A s \in 2..Len(actionHistory) :
               actionHistory[s].previousState = ApplyRecord(actionHistory[s - 1])
        /\ [gameState EXCEPT !.gameEnded = FALSE] = ApplyRecord(Last(actionHistory))

\* An ended game whose full history holds a point, a closed round and a reset.
C28_Witness ==
    /\ InGame
    /\ gameState.gameEnded
    /\ Len(actionHistory) = MaxHist
    /\ actionHistory[1].type = "addPoint"
    /\ actionHistory[2].type = "endRound"
    /\ actionHistory[3].type = "resetRound"

\* C29: every snapshot in the history has gameEnded false, so an undo that
\* changes the state leaves an active game.
C29_SnapshotsAreActive ==
    [][ /\ \A s \in 1..Len(actionHistory') :
               ~actionHistory'[s].previousState.gameEnded
        /\ (lastCall'.op = "undo" /\ gameState' # gameState) =>
               ~gameState'.gameEnded
      ]_vars

\* An undo that installed a snapshot and left a resetRound record below it.
C29_Witness ==
    /\ lastCall = Call("undo", -1, "done")
    /\ ~gameState.gameEnded
    /\ actionHistory # <<>>
    /\ Last(actionHistory).type = "resetRound"

\* A score the scoreboard can show: 0, 10, 20, ...
IsScore(x) == x >= 0 /\ x % 10 = 0

ScoresOk(gs) ==
    \A k \in 1..Len(gs.players) :
        /\ IsScore(gs.players[k].totalScore)
        /\ \A r \in 1..Len(gs.players[k].roundScores) :
               IsScore(gs.players[k].roundScores[r])

\* C30: in every reachable state every roundScores entry and every
\* totalScore, of the current state and of every snapshot, is a non-negative
\* multiple of 10.
C30_ScoresAreMultiplesOfTen ==
    /\ ScoresOk(gameState)
    /\ \A s \in 1..Len(actionHistory) : ScoresOk(actionHistory[s].previousState)

\* A reset that took a player's 20 points of the round back to 0.
C30_Witness ==
    /\ lastCall = Call("resetRound", -1, "done")
    /\ \E k \in 1..Len(gameState.players) :
           /\ Last(actionHistory).previousState.players[k].totalScore = 20
           /\ gameState.players[k].totalScore = 0

\* C25: a game supports 2 to 8 players: whatever the setup inputs, a started
\* game has at least inputMin and at most inputMax players.
C25_RosterSizeTwoToEight ==
    InGame => Len(gameState.players) \in inputMin..inputMax

C26_WitnessRefused ==
    /\ lastCall = Call("handlePlayerCountChange", 1, "guard")
    /\ numPlayers = stepperMax

\* C21: addPoint with a playerIndex that is not a position of players is
\* rejected: the LedgerState is as before and no record is appended.
C21_BadIndexRejected ==
    [][ (lastCall'.op = "addPoint" /\ lastCall'.arg \notin PlayerIndices) =>
            /\ gameState' = gameState
            /\ actionHistory' = actionHistory
      ]_vars

\* C22: addPoint, endRound and resetRound build a new LedgerState and leave
\* the old value alone: after the handler the player objects and roundScores
\* arrays of the previous value hold what they held before.
C22_OldValueUntouched ==
    [][ (lastCall'.op \in {"addPoint", "endRound", "resetRound"} /\ lastCall'.ret = "done") =>
            heap'.old = gameState
      ]_vars

\* No record of the history holds an object that the state or another
\* record holds.
NoSharedObjects(h) ==
    /\ \A s \in 1..Len(h.snaps) :
           h.snaps[s].obj # h.live.obj /\ h.snaps[s].arr # h.live.arr
    /\ \A s, t \in 1..Len(h.snaps) :
           s # t => (h.snaps[s].obj # h.snaps[t].obj /\ h.snaps[s].arr # h.snaps[t].arr)

\* C23: every snapshot in the history is a deep copy of its own: a record
\* is appended with a snapshot equal to the state before the handler, it
\* shares no object with the state or with another record, and no handler
\* (addPoint, endRound, resetRound, undo and what follows it, endGame)
\* changes a snapshot that stays in the history.
C23_SnapshotsAreIndependent ==
    [][ /\ Len(actionHistory') = Len(actionHistory) + 1 =>
               Last(actionHistory').previousState = gameState
        /\ \A s \in 1..Len(actionHistory') :
               s <= Len(actionHistory) => actionHistory'[s] = actionHistory[s]
        /\ NoSharedObjects(heap')
      ]_vars

\* A point added, with records in the history, to player objects that
\* JSON.parse made: the state is a snapshot an undo installed.
C23_Witness ==
    /\ lastCall.op = "addPoint"
    /\ lastCall.ret = "done"
    /\ heap.live.obj < 0
    /\ heap.live.arr < 0
    /\ Len(actionHistory) >= 2

\* C31: the winner endGame announces is the player the final ranking (the
\* stable descending sort of the Game Over summary and of getLeaderPosition)
\* puts at position 1, ties for the maximum included.
C31_WinnerIsRankedFirst ==
    lastCall.op = "endGame" =>
        /\ getLeaderPosition(gameState, endGameWinner(gameState)) = 1
        /\ sortedPlayers(gameState)[1].originalIndex = endGameWinner(gameState)

\* A name as the ledger keeps it: not empty, no space at either end.
IsTrimmedName(name) ==
    /\ name # <<>>
    /\ name[1] # " "
    /\ name[Len(name)] # " "

C32_WitnessRestart ==
    /\ showSetup
    /\ lastCall = Call("restart", -1, "done")
    /\ gameState = EmptyGameState

\* The LedgerState and the history of a world.
Ledger(w) == <<w.gameState, w.actionHistory>>

\* The world the handler of Index.tsx leaves for the call the second
\* variant has just made.
IndexAfter(w, call) ==
    CASE call.op = "addPoint"            -> addPoint(w, call.arg)
      [] call.op = "endRound"            -> endRound(w)
      [] call.op = "resetRound"          -> resetCurrentRound(w)
      [] call.op = "undo"                -> undoLastAction(w)
      [] call.op = "endGame"             -> endGame(w)
      [] call.op = "restart"             -> restartGame(w)
      [] call.op = "handleSetupComplete" -> handleSetupComplete(w)
      [] OTHER                           -> w

\* C33: the two variants of the page implement the same ledger: whatever
\* state the second variant has reached, the handler of Index.tsx applied to
\* that state for the same call (addPoint, endRound, resetRound, undo,
\* endGame, restart, start) leaves the LedgerState and the history the
\* second variant's handler leaves; so from the same roster and under the
\* same calls the two pass through the same LedgerStates and histories.  The
\* timeout of the winner overlay, which only the second variant has, leaves
\* both alone.
C33_VariantsAgree ==
    [][ <<gameState', actionHistory'>> = Ledger(IndexAfter(World, lastCall')) ]_vars

\* An undo in the second variant after its endGame, the overlay still up:
\* the game is active again and a record remains.
C33_Witness ==
    /\ lastCall = Call("undo", -1, "done")
    /\ showWinnerAnimation
    /\ timeouts > 0
    /\ ~gameState.gameEnded
    /\ actionHistory # <<>>
    /\ gameState.currentRound > 0

====
